---- MODULE Spec2Model ----
(***************************************************************************)
(* Deck incidence model and validation engine of the symbol-matching game: *)
(* the order-7 projective-plane generator (computational fallback), the    *)
(* graph store with its seeding and its two read queries, the round        *)
(* manager and the judge.                                                  *)
(*                                                                         *)
(* Python values that may be None, or whose type varies, are tagged:       *)
(* Null for None / Cypher null, IntV(n) for an int, StrV(s) for a str,     *)
(* BoolV(b) for a bool, DictV(r) for a dict r, ListV(q) for a list q.      *)
(* A call's outcome is a record [status, value] whose status is "ok" or    *)
(* the name of the exception the call raises.  Node properties that no     *)
(* query reads (emoji, label), the sorted name list of a response and the  *)
(* random geometry of a layout (x, y, rotation, size, emoji) are left out. *)
(* The availability of the datastore is fixed during a run, except in      *)
(* SpecOutage, where a serving process may lose it.                        *)
(***************************************************************************)
EXTENDS Integers, Sequences, FiniteSets, TLC

VARIABLES
    configured,   \* neo4j package importable and NEO4J_PASSWORD set
    reachable,    \* the graph datastore accepts this process's connections
    driver,       \* graph._driver is not None (the cached connection)
    store,        \* the graph datastore: Point nodes, Card nodes, :ON edges
    pc,           \* position of the startup path (main.lifespan)
    rounds,       \* main._rounds: token -> (Round, layout), tokens 1..Len
    ret,          \* the last call and its outcome
    paths,        \* the startup paths that run ensure_deck_loaded side by side
    threads       \* the worker threads that serve requests side by side

vars == <<configured, reachable, driver, store, pc, rounds, ret, paths, threads>>

----------------------------------------------------------------------------
(* Tagged values *)

Null == <<"null">>

IntV(n) == <<"int", n>>

StrV(s) == <<"str", s>>

DictV(d) == <<"dict", d>>

ListV(l) == <<"list", l>>

BoolV(b) == <<"bool", b>>

IsInt(v) == v[1] = "int"

Ok(v) == [status |-> "ok", value |-> v]

Raise(e) == [status |-> e, value |-> Null]

----------------------------------------------------------------------------
(* symbols.py *)

EMOJI_NAMES ==
  <<
    "Anchor", "Apple", "Baby bottle", "Bomb", "Cactus", "Candle",
    "Taxi", "Carrot", "Knight", "Clock", "Clown", "Daisy",
    "Dinosaur", "Dolphin", "Dragon", "Exclamation", "Eye", "Fire",
    "Clover", "Ghost", "Green heart", "Hammer", "Heart", "Ice",
    "Tent", "Key", "Ladybug", "Light bulb", "Lightning", "Lock",
    "Maple leaf", "Moon", "Prohibited", "Pumpkin", "Pencil", "Bird",
    "Cat", "Hand wave", "Lips", "Scissors", "Skull", "Snowflake",
    "Snowman", "Spider", "Spider web", "Sun", "Sunglasses", "Target",
    "Tortoise", "Music notes", "Tree", "Drop", "Dog", "Yin yang",
    "Zebra", "Question mark", "Cheese"
  >>

\* The characters of each string the model handles (TLA+ strings are atomic):
\* the 57 display names, "?", and the claimed names of NameInputs.
Chars ==
  "Anchor" :> <<"A", "n", "c", "h", "o", "r">> @@
  "Apple" :> <<"A", "p", "p", "l", "e">> @@
  "Baby bottle" :> <<"B", "a", "b", "y", " ", "b", "o", "t", "t", "l", "e">> @@
  "Bomb" :> <<"B", "o", "m", "b">> @@
  "Cactus" :> <<"C", "a", "c", "t", "u", "s">> @@
  "Candle" :> <<"C", "a", "n", "d", "l", "e">> @@
  "Taxi" :> <<"T", "a", "x", "i">> @@
  "Carrot" :> <<"C", "a", "r", "r", "o", "t">> @@
  "Knight" :> <<"K", "n", "i", "g", "h", "t">> @@
  "Clock" :> <<"C", "l", "o", "c", "k">> @@
  "Clown" :> <<"C", "l", "o", "w", "n">> @@
  "Daisy" :> <<"D", "a", "i", "s", "y">> @@
  "Dinosaur" :> <<"D", "i", "n", "o", "s", "a", "u", "r">> @@
  "Dolphin" :> <<"D", "o", "l", "p", "h", "i", "n">> @@
  "Dragon" :> <<"D", "r", "a", "g", "o", "n">> @@
  "Exclamation" :> <<"E", "x", "c", "l", "a", "m", "a", "t", "i", "o", "n">> @@
  "Eye" :> <<"E", "y", "e">> @@
  "Fire" :> <<"F", "i", "r", "e">> @@
  "Clover" :> <<"C", "l", "o", "v", "e", "r">> @@
  "Ghost" :> <<"G", "h", "o", "s", "t">> @@
  "Green heart" :> <<"G", "r", "e", "e", "n", " ", "h", "e", "a", "r", "t">> @@
  "Hammer" :> <<"H", "a", "m", "m", "e", "r">> @@
  "Heart" :> <<"H", "e", "a", "r", "t">> @@
  "Ice" :> <<"I", "c", "e">> @@
  "Tent" :> <<"T", "e", "n", "t">> @@
  "Key" :> <<"K", "e", "y">> @@
  "Ladybug" :> <<"L", "a", "d", "y", "b", "u", "g">> @@
  "Light bulb" :> <<"L", "i", "g", "h", "t", " ", "b", "u", "l", "b">> @@
  "Lightning" :> <<"L", "i", "g", "h", "t", "n", "i", "n", "g">> @@
  "Lock" :> <<"L", "o", "c", "k">> @@
  "Maple leaf" :> <<"M", "a", "p", "l", "e", " ", "l", "e", "a", "f">> @@
  "Moon" :> <<"M", "o", "o", "n">> @@
  "Prohibited" :> <<"P", "r", "o", "h", "i", "b", "i", "t", "e", "d">> @@
  "Pumpkin" :> <<"P", "u", "m", "p", "k", "i", "n">> @@
  "Pencil" :> <<"P", "e", "n", "c", "i", "l">> @@
  "Bird" :> <<"B", "i", "r", "d">> @@
  "Cat" :> <<"C", "a", "t">> @@
  "Hand wave" :> <<"H", "a", "n", "d", " ", "w", "a", "v", "e">> @@
  "Lips" :> <<"L", "i", "p", "s">> @@
  "Scissors" :> <<"S", "c", "i", "s", "s", "o", "r", "s">> @@
  "Skull" :> <<"S", "k", "u", "l", "l">> @@
  "Snowflake" :> <<"S", "n", "o", "w", "f", "l", "a", "k", "e">> @@
  "Snowman" :> <<"S", "n", "o", "w", "m", "a", "n">> @@
  "Spider" :> <<"S", "p", "i", "d", "e", "r">> @@
  "Spider web" :> <<"S", "p", "i", "d", "e", "r", " ", "w", "e", "b">> @@
  "Sun" :> <<"S", "u", "n">> @@
  "Sunglasses" :> <<"S", "u", "n", "g", "l", "a", "s", "s", "e", "s">> @@
  "Target" :> <<"T", "a", "r", "g", "e", "t">> @@
  "Tortoise" :> <<"T", "o", "r", "t", "o", "i", "s", "e">> @@
  "Music notes" :> <<"M", "u", "s", "i", "c", " ", "n", "o", "t", "e", "s">> @@
  "Tree" :> <<"T", "r", "e", "e">> @@
  "Drop" :> <<"D", "r", "o", "p">> @@
  "Dog" :> <<"D", "o", "g">> @@
  "Yin yang" :> <<"Y", "i", "n", " ", "y", "a", "n", "g">> @@
  "Zebra" :> <<"Z", "e", "b", "r", "a">> @@
  "Question mark" :> <<"Q", "u", "e", "s", "t", "i", "o", "n", " ", "m", "a", "r", "k">> @@
  "Cheese" :> <<"C", "h", "e", "e", "s", "e">> @@
  "" :> <<>> @@
  " " :> <<" ">> @@
  " MUSIC NOTES " :> <<" ", "M", "U", "S", "I", "C", " ", "N", "O", "T", "E", "S", " ">> @@
  "tree\t" :> <<"t", "r", "e", "e", "\t">> @@
  "apple" :> <<"a", "p", "p", "l", "e">> @@
  "?" :> <<"?">>

\* str.strip(): leading and trailing whitespace removed
Whitespace == {" ", "\t", "\n", "\r"}

RECURSIVE LStrip(_)
LStrip(cs) == IF cs # <<>> /\ Head(cs) \in Whitespace THEN LStrip(Tail(cs)) ELSE cs

RECURSIVE RStrip(_)
RStrip(cs) ==
    IF cs # <<>> /\ cs[Len(cs)] \in Whitespace
    THEN RStrip(SubSeq(cs, 1, Len(cs) - 1))
    ELSE cs

strip(cs) == RStrip(LStrip(cs))

\* str.lower(): each upper-case letter replaced by its lower-case letter
UpperCase == <<"A", "B", "C", "D", "E", "F", "G", "H", "I", "J", "K", "L", "M",
               "N", "O", "P", "Q", "R", "S", "T", "U", "V", "W", "X", "Y", "Z">>

LowerCase == <<"a", "b", "c", "d", "e", "f", "g", "h", "i", "j", "k", "l", "m",
               "n", "o", "p", "q", "r", "s", "t", "u", "v", "w", "x", "y", "z">>

LowerChar(c) ==
    IF \E i \in DOMAIN UpperCase : UpperCase[i] = c
    THEN LowerCase[CHOOSE i \in DOMAIN UpperCase : UpperCase[i] = c]
    ELSE c

lower(cs) == [k \in DOMAIN cs |-> LowerChar(cs[k])]

\* name_for_point_id is imported by graph.py but symbols.py does not define it;
\* it is the display name of point pid for pid in 0..56, "?" otherwise.
name_for_point_id(pid) ==
    IF IsInt(pid) /\ 0 <= pid[2] /\ pid[2] <= 56
    THEN StrV(EMOJI_NAMES[pid[2] + 1])
    ELSE StrV("?")

----------------------------------------------------------------------------
(* graph.py: computational fallback *)

range(n) == 0 .. (n - 1)

\* [f(x) for x in range(7)]
\* Fault variant of AffineIndices: the row is not reduced modulo 7
AffineIndices_NoModulo(m, b) == [k \in 1..7 |-> (k - 1) * 7 + (m * (k - 1) + b)]

AffineIndices(m, b) == [k \in 1..7 |-> (k - 1) * 7 + ((m * (k - 1) + b) % 7)]

\* Fault variant of VerticalIndices: column and row exchanged
VerticalIndices_Transposed(c) == [k \in 1..7 |-> (k - 1) * 7 + c]

VerticalIndices(c) == [k \in 1..7 |-> c * 7 + (k - 1)]

InfinityIndices == [k \in 1..8 |-> 48 + k]

\* Fault variant of indices: the infinity point taken by intercept, not slope
indices_ByIntercept(card_id) ==
    IF card_id < 49
    THEN AffineIndices(card_id \div 7, card_id % 7) \o <<49 + (card_id % 7)>>
    ELSE IF card_id < 56
         THEN VerticalIndices(card_id - 49) \o <<56>>
         ELSE InfinityIndices

indices(card_id) ==
    IF card_id < 49
    THEN AffineIndices(card_id \div 7, card_id % 7) \o <<49 + (card_id \div 7)>>
    ELSE IF card_id < 56
         THEN VerticalIndices(card_id - 49) \o <<56>>
         ELSE InfinityIndices

SymbolDict(i) == [pointId |-> IntV(i + 1), name |-> name_for_point_id(IntV(i + 1))]

_fallback_symbols_on_card(card_id) ==
    IF ~(0 <= card_id /\ card_id <= 56)
    THEN <<>>
    ELSE [k \in DOMAIN indices(card_id) |-> SymbolDict(indices(card_id)[k])]

\* {p["pointId"] for p in list}
PointIdSet(list) == {list[k].pointId : k \in DOMAIN list}

\* Fault variant of _fallback_shared_symbol: the id is popped from the first
\* card's set, not from the intersection
_fallback_shared_symbol_PopFirst(card_id_a, card_id_b) ==
    LET sa == PointIdSet(_fallback_symbols_on_card(card_id_a))
        sb == PointIdSet(_fallback_symbols_on_card(card_id_b))
        shared_ids == sa \cap sb
    IN  IF Cardinality(shared_ids) # 1
        THEN Null
        ELSE LET pid == CHOOSE p \in sa : \A q \in sa : p[2] <= q[2]
             IN  DictV([pointId |-> pid, name |-> name_for_point_id(pid)])

\* Fault variant of _fallback_shared_symbol: None only for no shared id
_fallback_shared_symbol_AnyShared(card_id_a, card_id_b) ==
    LET sa == PointIdSet(_fallback_symbols_on_card(card_id_a))
        sb == PointIdSet(_fallback_symbols_on_card(card_id_b))
        shared_ids == sa \cap sb
    IN  IF shared_ids = {}
        THEN Null
        ELSE LET pid == CHOOSE p \in shared_ids : TRUE
             IN  DictV([pointId |-> pid, name |-> name_for_point_id(pid)])

_fallback_shared_symbol(card_id_a, card_id_b) ==
    LET sa == PointIdSet(_fallback_symbols_on_card(card_id_a))
        sb == PointIdSet(_fallback_symbols_on_card(card_id_b))
        shared_ids == sa \cap sb
    IN  IF Cardinality(shared_ids) # 1
        THEN Null
        ELSE LET pid == CHOOSE p \in shared_ids : TRUE
             IN  DictV([pointId |-> pid, name |-> name_for_point_id(pid)])

----------------------------------------------------------------------------
(* seed_neo4j.py: the graph store and its seeding *)

EmptyStore == [points |-> {}, cards |-> {}, on |-> {}]

\* n.key in Cypher: null when the node has no such property
Prop(n, key) == IF key \in DOMAIN n THEN n[key] ELSE Null

\* The node pattern {key: v}: a null never matches
Has(n, key, v) == v # Null /\ Prop(n, key) = v

PointNode(sid) ==
    [ symbolId |-> IntV(sid),
      name  |-> StrV(EMOJI_NAMES[sid + 1]),
      kind  |-> IF sid < 49 THEN StrV("affine") ELSE StrV("infinity"),
      x     |-> IF sid < 49 THEN IntV(sid \div 7) ELSE Null,
      y     |-> IF sid < 49 THEN IntV(sid % 7) ELSE Null,
      slope |-> IF sid = 56 THEN StrV("vertical")
                ELSE IF 49 <= sid /\ sid <= 55 THEN IntV(sid - 49) ELSE Null ]

CardNode(cid) ==
    IF cid < 49
    THEN [cardId |-> IntV(cid), kind |-> StrV("affine"),
          m |-> IntV(cid \div 7), b |-> IntV(cid % 7), x |-> Null]
    ELSE IF cid < 56
         THEN [cardId |-> IntV(cid), kind |-> StrV("vertical"),
               m |-> Null, b |-> Null, x |-> IntV(cid - 49)]
         ELSE [cardId |-> IntV(cid), kind |-> StrV("infinity"),
               m |-> Null, b |-> Null, x |-> Null]

\* MERGE (p {symbolId: $sid}) SET ... for sid in range(0, 57)
_seed_points(st) ==
    [st EXCEPT !.points =
        {p \in @ : \A sid \in range(57) : ~Has(p, "symbolId", IntV(sid))}
        \cup {PointNode(sid) : sid \in range(57)}]

\* MERGE (l {cardId: $cid}) SET ... for cid in range(57)
_seed_cards(st) ==
    [st EXCEPT !.cards =
        {l \in @ : \A cid \in range(57) : ~Has(l, "cardId", IntV(cid))}
        \cup {CardNode(cid) : cid \in range(57)}]

\* MERGE (p)-[:ON]->(l)
Edge(p, l) == [p |-> p.symbolId[2], c |-> l.cardId[2]]

CardsOfKind(st, kind) == {l \in st.cards : Has(l, "kind", StrV(kind))}

PointsOfKind(st, kind) == {p \in st.points : Has(p, "kind", StrV(kind))}

\* 3a) affine lines: the point (x, (m*x + b) % 7) for x in 0..6
IncidenceAffine(st) ==
    UNION { { Edge(p, l) : p \in {q \in PointsOfKind(st, "affine") :
                  /\ IsInt(l.m) /\ IsInt(l.b)
                  /\ Has(q, "x", IntV(x))
                  /\ Has(q, "y", IntV((l.m[2] * x + l.b[2]) % 7))} }
            : <<l, x>> \in CardsOfKind(st, "affine") \X (0..6) }

\* 3b) affine lines: the infinity point of the line's slope
IncidenceSlope(st) ==
    UNION { { Edge(p, l) : p \in {q \in PointsOfKind(st, "infinity") :
                  Has(q, "slope", l.m)} }
            : l \in CardsOfKind(st, "affine") }

\* 3c) vertical lines: the points (c, y) for y in 0..6
IncidenceVertical(st) ==
    UNION { { Edge(p, l) : p \in {q \in PointsOfKind(st, "affine") :
                  Has(q, "x", l.x) /\ Has(q, "y", IntV(y))} }
            : <<l, y>> \in CardsOfKind(st, "vertical") \X (0..6) }

\* Fault variant of IncidenceVerticalInf: the point matched by kind "vertical"
IncidenceVerticalInf_ByKind(st) ==
    UNION { { Edge(p, l) : p \in PointsOfKind(st, "vertical") }
            : l \in CardsOfKind(st, "vertical") }

\* 3d) vertical lines: the vertical infinity point
IncidenceVerticalInf(st) ==
    UNION { { Edge(p, l) : p \in {q \in PointsOfKind(st, "infinity") :
                  Has(q, "slope", StrV("vertical"))} }
            : l \in CardsOfKind(st, "vertical") }

\* 3e) line at infinity: all infinity points
IncidenceInfinity(st) ==
    UNION { { Edge(p, l) : p \in PointsOfKind(st, "infinity") }
            : l \in CardsOfKind(st, "infinity") }

\* The k-th session.run of _seed_incidence
IncidenceQuery(st, k) ==
    [st EXCEPT !.on = @ \cup
        CASE k = 1 -> IncidenceAffine(st)
          [] k = 2 -> IncidenceSlope(st)
          [] k = 3 -> IncidenceVertical(st)
          [] k = 4 -> IncidenceVerticalInf(st)
          [] OTHER -> IncidenceInfinity(st)]

_seed_incidence(st) ==
    IncidenceQuery(IncidenceQuery(IncidenceQuery(IncidenceQuery(
        IncidenceQuery(st, 1), 2), 3), 4), 5)

\* Fault variant of CardCount: the count query names a label no node has
CardCount_WrongLabel(st) == Cardinality({l \in st.cards : FALSE})

\* MATCH (c:Card) RETURN count(c) AS n
CardCount(st) == Cardinality(st.cards)

\* The store a completed seeding leaves behind
SeededStore == _seed_incidence(_seed_cards(_seed_points(EmptyStore)))

----------------------------------------------------------------------------
(* graph.py: the graph-backed queries *)

\* get_driver(): the value it returns, and graph._driver after the call.
\* _driver is assigned before verify_connectivity() is tried.
DriverReturned == configured /\ (driver \/ reachable)

DriverAfter == driver \/ configured

\* ORDER BY key, ascending, nulls last
Leq(u, v) == v = Null \/ (IsInt(u) /\ IsInt(v) /\ u[2] <= v[2])

RECURSIVE OrderBy(_, _)
OrderBy(S, key) ==
    IF S = {} THEN <<>>
    ELSE LET s == CHOOSE s \in S : \A t \in S : Leq(Prop(s, key), Prop(t, key))
         IN  <<s>> \o OrderBy(S \ {s}, key)

HasEdge(st, p, l) == IsInt(Prop(p, "symbolId")) /\ Edge(p, l) \in st.on

CardsWithId(st, card_id) == {l \in st.cards : Has(l, "cardId", IntV(card_id))}

\* MATCH (s:Point:Symbol)-[:ON]->(c:Card {cardId: $card_id})
SymbolsMatch(st, card_id) ==
    LET C == CardsWithId(st, card_id)
    IN  {s \in st.points : \E c \in C : HasEdge(st, s, c)}

\* RETURN s.pointId AS pointId ORDER BY s.pointId, then the list comprehension
GraphSymbolsOnCard(st, card_id) ==
    LET rows == OrderBy(SymbolsMatch(st, card_id), "pointId")
    IN  [k \in DOMAIN rows |->
            [pointId |-> Prop(rows[k], "pointId"),
             name    |-> name_for_point_id(Prop(rows[k], "pointId"))]]

\* Fault variant of SharedMatch: the pattern stops at the symbol, so every
\* symbol of the first card matches
SharedMatch_OneSided(st, a, b) ==
    LET A == CardsWithId(st, a)
    IN  {s \in st.points : \E ca \in A : HasEdge(st, s, ca)}

\* CYPHER_SHARED_SYMBOL: one pattern, so its two :ON relationships differ
SharedMatch(st, a, b) ==
    LET A == CardsWithId(st, a)
        B == CardsWithId(st, b)
    IN  {s \in st.points :
            \E ca \in A, cb \in B :
                /\ HasEdge(st, s, ca) /\ HasEdge(st, s, cb)
                /\ Edge(s, ca) # Edge(s, cb)}

\* RETURN s.name AS name, s.pointId AS pointId
SharedRow(s) == [name |-> Prop(s, "name"), pointId |-> Prop(s, "pointId")]

\* row.get(key): None for a key the row does not have
RowGet(row, key) == IF key \in DOMAIN row THEN row[key] ELSE Null

\* get_shared_symbol, lines 125-133
SharedFromRow(row) ==
    LET pid0  == RowGet(row, "pointId")
        pid   == IF pid0 = Null THEN RowGet(row, "s.pointId") ELSE pid0
        name0 == RowGet(row, "name")
        name1 == IF name0 = Null THEN RowGet(row, "s.name") ELSE name0
        name  == IF name1 = Null /\ pid # Null THEN name_for_point_id(pid) ELSE name1
    IN  DictV([pointId |-> pid, name |-> name])

\* The outcomes of get_symbols_on_card(card_id)
SymbolsOutcomes(card_id) ==
    IF ~DriverReturned
    THEN {Ok(ListV(_fallback_symbols_on_card(card_id)))}
    ELSE IF ~reachable
         THEN {Raise("ServiceUnavailable")}
         ELSE {Ok(ListV(GraphSymbolsOnCard(store, card_id)))}

\* The outcomes of get_shared_symbol(a, b): result.single() gives None for no
\* record and the first record, in the store's order, for several
SharedOutcomes(a, b) ==
    IF ~DriverReturned
    THEN {Ok(_fallback_shared_symbol(a, b))}
    ELSE IF ~reachable
         THEN {Raise("ServiceUnavailable")}
         ELSE LET rows == SharedMatch(store, a, b)
              IN  IF rows = {}
                  THEN {Ok(Null)}
                  ELSE {Ok(SharedFromRow(SharedRow(s))) : s \in rows}

Via == IF DriverReturned THEN "graph" ELSE "fallback"

Call(op, args, out) == [op |-> op, args |-> args, via |-> Via,
                        status |-> out.status, value |-> out.value]

----------------------------------------------------------------------------
(* main.py lifespan: startup *)

NoCall == [op |-> "none", args |-> <<>>, via |-> "none",
           status |-> "ok", value |-> Null]

\* driver = get_driver()
StartupGetDriver ==
    /\ pc = "start"
    /\ driver' = DriverAfter
    /\ pc' = IF DriverReturned THEN "check" ELSE "serving"
    /\ UNCHANGED <<configured, reachable, store, rounds, ret, paths, threads>>

\* ensure_deck_loaded: the pre-check count query
EnsureCheck ==
    /\ pc = "check"
    /\ IF ~reachable
       THEN pc' = "failed" /\ ret' = Call("ensure_deck_loaded", <<>>, Raise("ServiceUnavailable"))
       ELSE IF CardCount(store) > 0
            THEN pc' = "serving" /\ ret' = Call("ensure_deck_loaded", <<>>, Ok(StrV("already_loaded")))
            ELSE pc' = "seed_points" /\ ret' = ret
    /\ UNCHANGED <<configured, reachable, driver, store, rounds, paths, threads>>

SeedFailed ==
    /\ pc' = "failed"
    /\ ret' = Call("ensure_deck_loaded", <<>>, Raise("ServiceUnavailable"))
    /\ store' = store

SeedPoints ==
    /\ pc = "seed_points"
    /\ IF ~reachable THEN SeedFailed
       ELSE store' = _seed_points(store) /\ pc' = "seed_cards" /\ ret' = ret
    /\ UNCHANGED <<configured, reachable, driver, rounds, paths, threads>>

SeedCards ==
    /\ pc = "seed_cards"
    /\ IF ~reachable THEN SeedFailed
       ELSE store' = _seed_cards(store) /\ pc' = "seed_incidence_1" /\ ret' = ret
    /\ UNCHANGED <<configured, reachable, driver, rounds, paths, threads>>

IncidencePc(k) ==
    CASE k = 1 -> "seed_incidence_1" [] k = 2 -> "seed_incidence_2"
      [] k = 3 -> "seed_incidence_3" [] k = 4 -> "seed_incidence_4"
      [] OTHER -> "seed_incidence_5"

SeedIncidence(k) ==
    /\ pc = IncidencePc(k)
    /\ IF ~reachable THEN SeedFailed
       ELSE /\ store' = IncidenceQuery(store, k)
            /\ IF k < 5
               THEN pc' = IncidencePc(k + 1) /\ ret' = ret
               ELSE /\ pc' = "serving"
                    /\ ret' = Call("ensure_deck_loaded", <<>>, Ok(StrV("just_loaded")))
    /\ UNCHANGED <<configured, reachable, driver, rounds, paths, threads>>

Startup ==
    \/ StartupGetDriver
    \/ EnsureCheck
    \/ SeedPoints
    \/ SeedCards
    \/ \E k \in 1..5 : SeedIncidence(k)

----------------------------------------------------------------------------
(* Incidence queries, for every card id and one id on either side of 0..56 *)

CardInputs == -1 .. 57

GetSymbolsOnCard(card_id) ==
    /\ pc = "serving"
    /\ ret = NoCall
    /\ \E out \in SymbolsOutcomes(card_id) :
          ret' = Call("get_symbols_on_card", <<card_id>>, out)
    /\ driver' = DriverAfter
    /\ UNCHANGED <<configured, reachable, store, pc, rounds, paths, threads>>

GetSharedSymbol(a, b) ==
    /\ pc = "serving"
    /\ ret = NoCall
    /\ \E out \in SharedOutcomes(a, b) :
          ret' = Call("get_shared_symbol", <<a, b>>, out)
    /\ driver' = DriverAfter
    /\ UNCHANGED <<configured, reachable, store, pc, rounds, paths, threads>>

FallbackSymbolsOnCard(card_id) ==
    /\ pc = "serving"
    /\ ret = NoCall
    /\ ret' = [Call("_fallback_symbols_on_card", <<card_id>>,
                    Ok(ListV(_fallback_symbols_on_card(card_id)))) EXCEPT !.via = "fallback"]
    /\ UNCHANGED <<configured, reachable, driver, store, pc, rounds, paths, threads>>

FallbackSharedSymbol(a, b) ==
    /\ pc = "serving"
    /\ ret = NoCall
    /\ ret' = [Call("_fallback_shared_symbol", <<a, b>>,
                    Ok(_fallback_shared_symbol(a, b))) EXCEPT !.via = "fallback"]
    /\ UNCHANGED <<configured, reachable, driver, store, pc, rounds, paths, threads>>

----------------------------------------------------------------------------
(* game_logic.py: rounds and validation *)

MaxRounds == 2

\* The card ids the random source is let to produce
DrawCandidates == {0, 1, 7, 57}

\* Fault variant of sample: three draws with replacement
sample_WithReplacement(population) == [1..3 -> population \cap DrawCandidates]

\* random.sample(population, 3): three draws without replacement
sample(population) ==
    {ids \in [1..3 -> population \cap DrawCandidates] :
        \A i, j \in 1..3 : i # j => ids[i] # ids[j]}

\* new_round on the drawn ids: Round(ids[0], ids[1], ids[2])
new_round(ids) ==
    [target_card_id |-> ids[1], ai_card_id |-> ids[2], human_card_id |-> ids[3]]

\* The card a role's answer is judged on
RoleCard(r, role) == IF role = "human" THEN r.human_card_id ELSE r.ai_card_id

\* Round.human_target_shared / Round.ai_target_shared
TargetSharedOutcomes(r, role) == SharedOutcomes(RoleCard(r, role), r.target_card_id)

\* d[key] on the dict d
DictGet(d, key) == IF key \in DOMAIN d[2] THEN Ok(d[2][key]) ELSE Raise("KeyError")

\* Fault variant of NamesEqual: the truth's name only has to start with the claim
NamesEqual_Prefix(a, b) ==
    LET t == lower(strip(Chars[a[2]]))
        n == lower(strip(Chars[b[2]]))
    IN  Len(n) <= Len(t) /\ SubSeq(t, 1, Len(n)) = n

NamesEqual(a, b) == lower(strip(Chars[a[2]])) = lower(strip(Chars[b[2]]))

\* Round.validate_human_answer / Round.validate_ai_answer on the outcome of
\* their own shared-symbol query
validate_answer(shared, symbol_id, name) ==
    IF shared.status # "ok" THEN shared
    ELSE LET truth == shared.value
             sid   == DictGet(truth, "symbolId")
             tname == DictGet(truth, "name")
         IN  IF truth = Null THEN Ok(BoolV(FALSE))
             ELSE IF symbol_id # Null /\ sid.status # "ok" THEN sid
             ELSE IF symbol_id # Null /\ sid.value = symbol_id THEN Ok(BoolV(TRUE))
             ELSE IF name = Null THEN Ok(BoolV(FALSE))
             ELSE IF tname.status # "ok" THEN tname
             ELSE IF tname.value = Null THEN Raise("AttributeError")
             ELSE Ok(BoolV(NamesEqual(tname.value, name)))

----------------------------------------------------------------------------
(* ai_player.py: the judge *)

\* claimed_name or ""
OrEmpty(name) == IF name = Null \/ name = StrV("") THEN StrV("") ELSE name

\* judge_answer: one shared-symbol query for truth, one inside validate
JudgeOutcomes(claimed_name, claimed_symbol_id, r, role) ==
    UNION { IF truth.status # "ok" THEN {truth}
            ELSE { IF valid.status # "ok" THEN valid
                   ELSE Ok(DictV([correct |-> valid.value, expected |-> truth.value]))
                   : valid \in { validate_answer(shared, claimed_symbol_id,
                                                 OrEmpty(claimed_name))
                                 : shared \in TargetSharedOutcomes(r, role) } }
            : truth \in TargetSharedOutcomes(r, role) }

----------------------------------------------------------------------------
(* main.py: the request handlers *)

\* symbols_for_round: three get_symbols_on_card calls
SymbolsForRound(r) ==
    LET t == SymbolsOutcomes(r.target_card_id)
        a == SymbolsOutcomes(r.ai_card_id)
        h == SymbolsOutcomes(r.human_card_id)
    IN  { IF ot.status # "ok" THEN ot
          ELSE IF oa.status # "ok" THEN oa
          ELSE IF oh.status # "ok" THEN oh
          ELSE Ok(DictV([target |-> ot.value, ai |-> oa.value, human |-> oh.value]))
          : <<ot, oa, oh>> \in t \X a \X h }

\* _layout_for_card: one entry per symbol, in the order given
\* (size_pool has 8 entries; the random geometry is left out)
LayoutForCard(symbols) ==
    IF Len(symbols[2]) > 8 THEN Raise("IndexError")
    ELSE Ok(ListV([k \in DOMAIN symbols[2] |->
                    [pointId |-> symbols[2][k].pointId, name |-> symbols[2][k].name]]))

Layout(symbols) ==
    LET t == LayoutForCard(symbols[2].target)
        a == LayoutForCard(symbols[2].ai)
        h == LayoutForCard(symbols[2].human)
    IN  IF t.status # "ok" THEN t
        ELSE IF a.status # "ok" THEN a
        ELSE IF h.status # "ok" THEN h
        ELSE Ok(DictV([target |-> t.value, ai |-> a.value, human |-> h.value]))

\* POST /api/round; the fresh uuid4 token is the next unused number
CreateRound ==
    /\ pc = "serving"
    /\ ret = NoCall
    /\ Len(rounds) < MaxRounds
    /\ \E ids \in sample(range(57)) : \E symbols \in SymbolsForRound(new_round(ids)) :
          LET r        == new_round(ids)
              round_id == Len(rounds) + 1
              layout   == IF symbols.status = "ok" THEN Layout(symbols.value) ELSE symbols
          IN  IF layout.status # "ok"
              THEN /\ rounds' = rounds
                   /\ ret' = Call("create_round", ids, layout)
              ELSE /\ rounds' = Append(rounds, [round |-> r, layout |-> layout.value])
                   /\ ret' = Call("create_round", ids,
                          Ok(DictV([roundId      |-> round_id,
                                    targetCardId |-> r.target_card_id,
                                    aiCardId     |-> r.ai_card_id,
                                    humanCardId  |-> r.human_card_id,
                                    layout       |-> layout.value])))
    /\ driver' = DriverAfter
    /\ UNCHANGED <<configured, reachable, store, pc, paths, threads>>

\* Request inputs
TokenInputs == 1 .. (MaxRounds + 1)

IdInputs == {Null, IntV(1), IntV(50)}

NameInputs == {Null, StrV(""), StrV(" MUSIC NOTES "), StrV("apple"), StrV("Zebra")}

\* POST /api/round/{round_id}/validate with body {pointId, name}
ValidateAnswer(round_id, point_id, name) ==
    /\ pc = "serving"
    /\ ret = NoCall
    /\ IF round_id \notin DOMAIN rounds
       THEN /\ ret' = Call("validate_answer", <<round_id, point_id, name>>, Raise("404"))
            /\ driver' = driver
       ELSE /\ \E out \in JudgeOutcomes(name, point_id, rounds[round_id].round, "human") :
                 ret' = Call("validate_answer", <<round_id, point_id, name>>,
                     IF out.status # "ok" THEN out
                     ELSE Ok(DictV([correct  |-> out.value[2].correct,
                                    expected |-> out.value[2].expected,
                                    debug    |-> IF DriverReturned
                                                 THEN out.value[2].expected
                                                 ELSE Null])))
            /\ driver' = DriverAfter
    /\ UNCHANGED <<configured, reachable, store, pc, rounds, paths, threads>>

\* judge_answer(claimed_name, claimed_symbol_id, round_obj, "ai")
JudgeAi(round_id, point_id, name) ==
    /\ pc = "serving"
    /\ ret = NoCall
    /\ round_id \in DOMAIN rounds
    /\ \E out \in JudgeOutcomes(name, point_id, rounds[round_id].round, "ai") :
          ret' = Call("judge_answer", <<round_id, point_id, name>>, out)
    /\ driver' = DriverAfter
    /\ UNCHANGED <<configured, reachable, store, pc, rounds, paths, threads>>

\* Card ids a Round object can be built from besides those new_round draws
RoundCardInputs == {-1, 0, 1, 57}

\* judge_answer(claimed_name, claimed_symbol_id, Round(target, card, card),
\* "human") on a Round built by the caller
JudgeRound(target, card, point_id, name) ==
    /\ pc = "serving"
    /\ ret = NoCall
    /\ \E out \in JudgeOutcomes(name, point_id,
                    [target_card_id |-> target, ai_card_id |-> card,
                     human_card_id |-> card], "human") :
          ret' = Call("judge_round", <<target, card, point_id, name>>, out)
    /\ driver' = DriverAfter
    /\ UNCHANGED <<configured, reachable, store, pc, rounds, paths, threads>>

\* Fault variant of GetRound: the entry's layout is dropped once it is served
GetRound_DropLayout(round_id) ==
    /\ pc = "serving"
    /\ ret = NoCall
    /\ IF round_id \notin DOMAIN rounds
       THEN /\ ret' = Call("get_round", <<round_id>>, Raise("404"))
            /\ rounds' = rounds
       ELSE /\ ret' = Call("get_round", <<round_id>>,
                           Ok(DictV([roundId |-> round_id,
                                     layout  |-> rounds[round_id].layout])))
            /\ rounds' = [rounds EXCEPT ![round_id].layout = Null]
    /\ UNCHANGED <<configured, reachable, driver, store, pc, paths, threads>>

\* GET /api/round/{round_id}
GetRound(round_id) ==
    /\ pc = "serving"
    /\ ret = NoCall
    /\ IF round_id \notin DOMAIN rounds
       THEN /\ ret' = Call("get_round", <<round_id>>, Raise("404"))
            /\ driver' = driver
       ELSE /\ \E symbols \in SymbolsForRound(rounds[round_id].round) :
                 ret' = Call("get_round", <<round_id>>,
                     IF symbols.status # "ok" THEN symbols
                     ELSE Ok(DictV([roundId |-> round_id,
                                    layout  |-> rounds[round_id].layout])))
            /\ driver' = DriverAfter
    /\ UNCHANGED <<configured, reachable, store, pc, rounds, paths, threads>>

\* What ai_guess_shared_symbol hands back: an error, or a name that may be None
GuessInputs ==
    {[error |-> StrV("AI not configured"), name |-> Null]}
        \cup {[error |-> Null, name |-> n] : n \in NameInputs}

\* The response of ai_play when the guess failed or nothing can be rendered
AiError(error) == Ok(DictV([error |-> error, correct |-> Null, expected |-> Null]))

\* Fault variant of AiPlay: RENDER_AVAILABLE is looked at before the round table
AiPlay_RenderFirst(round_id, render_available, guess) ==
    /\ pc = "serving"
    /\ ret = NoCall
    /\ IF ~render_available
       THEN /\ ret' = Call("ai_play", <<round_id>>,
                           AiError(StrV("Card rendering not available")))
            /\ driver' = driver
       ELSE IF round_id \notin DOMAIN rounds
       THEN /\ ret' = Call("ai_play", <<round_id>>, Raise("404"))
            /\ driver' = driver
       ELSE /\ ret' = Call("ai_play", <<round_id>>, AiError(guess.error))
            /\ driver' = DriverAfter
    /\ UNCHANGED <<configured, reachable, store, pc, rounds, paths, threads>>

\* POST /api/round/{round_id}/ai-play.  RENDER_AVAILABLE is fixed when main.py
\* is imported; a call is taken for either value.  The picture of a card is
\* drawn from get_symbols_on_card, which symbols_for_round has just called.
AiPlay(round_id, render_available, guess) ==
    /\ pc = "serving"
    /\ ret = NoCall
    /\ IF round_id \notin DOMAIN rounds
       THEN /\ ret' = Call("ai_play", <<round_id>>, Raise("404"))
            /\ driver' = driver
       ELSE IF ~render_available
       THEN /\ ret' = Call("ai_play", <<round_id>>,
                           AiError(StrV("Card rendering not available")))
            /\ driver' = driver
       ELSE /\ \E symbols \in SymbolsForRound(rounds[round_id].round) :
                 IF symbols.status # "ok"
                 THEN ret' = Call("ai_play", <<round_id>>, symbols)
                 ELSE IF guess.error # Null
                 THEN ret' = Call("ai_play", <<round_id>>, AiError(guess.error))
                 ELSE \E out \in JudgeOutcomes(guess.name, Null,
                                               rounds[round_id].round, "ai") :
                         ret' = Call("ai_play", <<round_id>>,
                             IF out.status # "ok" THEN out
                             ELSE Ok(DictV([name     |-> guess.name,
                                            correct  |-> out.value[2].correct,
                                            expected |-> out.value[2].expected])))
            /\ driver' = DriverAfter
    /\ UNCHANGED <<configured, reachable, store, pc, rounds, paths, threads>>

\* The outcome is handed to the caller; the next call can start
Return ==
    /\ ret # NoCall
    /\ ret' = NoCall
    /\ UNCHANGED <<configured, reachable, driver, store, pc, rounds, paths, threads>>

----------------------------------------------------------------------------
(* Startup paths and worker threads that run side by side *)

NumPaths == 2

Paths == 1 .. NumPaths

\* A startup path that has not called ensure_deck_loaded yet
NotStarted == [pc |-> "check", result |-> Null, seeded |-> FALSE]

\* p's record with its position, and the fact that it has written, updated
Moved(p, to, wrote) ==
    [paths EXCEPT ![p] = [pc |-> to, result |-> Null,
                          seeded |-> paths[p].seeded \/ wrote]]

Finished(p, result) ==
    [paths EXCEPT ![p] = [pc |-> "done", result |-> StrV(result),
                          seeded |-> paths[p].seeded]]

\* ensure_deck_loaded of path p: the pre-check count query.  Only a process
\* that got a driver calls it.
PathCheck(p) ==
    /\ configured /\ reachable
    /\ paths[p].pc = "check"
    /\ paths' = IF CardCount(store) > 0
                THEN Finished(p, "already_loaded")
                ELSE Moved(p, "seed_points", FALSE)
    /\ UNCHANGED <<configured, reachable, driver, store, pc, rounds, ret, threads>>

PathSeedPoints(p) ==
    /\ paths[p].pc = "seed_points"
    /\ store' = _seed_points(store)
    /\ paths' = Moved(p, "seed_cards", TRUE)
    /\ UNCHANGED <<configured, reachable, driver, pc, rounds, ret, threads>>

PathSeedCards(p) ==
    /\ paths[p].pc = "seed_cards"
    /\ store' = _seed_cards(store)
    /\ paths' = Moved(p, IncidencePc(1), TRUE)
    /\ UNCHANGED <<configured, reachable, driver, pc, rounds, ret, threads>>

PathSeedIncidence(p, k) ==
    /\ paths[p].pc = IncidencePc(k)
    /\ store' = IncidenceQuery(store, k)
    /\ paths' = IF k < 5 THEN Moved(p, IncidencePc(k + 1), TRUE)
                ELSE Finished(p, "just_loaded")
    /\ UNCHANGED <<configured, reachable, driver, pc, rounds, ret, threads>>

\* The process of path p is started again and calls ensure_deck_loaded anew
PathRerun(p) ==
    /\ paths[p].pc \in {"done", "interrupted"}
    /\ paths' = [paths EXCEPT ![p] = NotStarted]
    /\ UNCHANGED <<configured, reachable, driver, store, pc, rounds, ret, threads>>

\* The process of path p is stopped between two statements of its seeding
PathInterrupt(p) ==
    /\ paths[p].pc \notin {"check", "done", "interrupted"}
    /\ paths' = Moved(p, "interrupted", FALSE)
    /\ UNCHANGED <<configured, reachable, driver, store, pc, rounds, ret, threads>>

NumThreads == 2

Threads == 1 .. NumThreads

\* A worker thread with no request
Idle == [pc |-> "idle", op |-> "none", token |-> 0, entry |-> Null, result |-> Null]

\* The tokens handed out so far: in the table, or held by a create_round
\* that has not stored yet
UsedTokens ==
    DOMAIN rounds \cup {threads[t].token : t \in {u \in Threads : threads[u].op = "create_round"}}

\* Fault variant of FreshToken: the token is the table's size plus one
FreshToken_TableSize == Cardinality(DOMAIN rounds) + 1

\* str(uuid.uuid4()): a token that was never handed out before
FreshToken == CHOOSE n \in 1 .. (Cardinality(UsedTokens) + 1) : n \notin UsedTokens

\* d[key] = value on the dict d
DictSet(d, key, value) ==
    [k \in DOMAIN d \cup {key} |-> IF k = key THEN value ELSE d[k]]

Done(t, out) == [threads EXCEPT ![t].pc = "done", ![t].result = out]

\* create_round up to its layout: new_round, symbols_for_round, uuid4, layout
ThreadCreate(t, ids) ==
    /\ pc = "serving"
    /\ threads[t].pc = "idle"
    /\ \E symbols \in SymbolsForRound(new_round(ids)) :
          LET layout == IF symbols.status = "ok" THEN Layout(symbols.value) ELSE symbols
          IN  threads' =
                IF layout.status # "ok"
                THEN [threads EXCEPT ![t].op = "create_round", ![t].pc = "done",
                                     ![t].result = layout]
                ELSE [threads EXCEPT ![t].op = "create_round", ![t].pc = "store",
                                     ![t].token = FreshToken,
                                     ![t].entry = [round  |-> new_round(ids),
                                                   layout |-> layout.value]]
    /\ driver' = DriverAfter
    /\ UNCHANGED <<configured, reachable, store, pc, rounds, ret, paths>>

\* _rounds[round_id] = (r, layout): one dict store
ThreadStore(t) ==
    /\ threads[t].pc = "store"
    /\ rounds' = DictSet(rounds, threads[t].token, threads[t].entry)
    /\ threads' = [threads EXCEPT ![t].pc = "respond"]
    /\ UNCHANGED <<configured, reachable, driver, store, pc, ret, paths>>

\* create_round returns the token, the card ids and the layout it built
ThreadRespond(t) ==
    /\ threads[t].pc = "respond"
    /\ threads' = Done(t, Ok(DictV(
          [roundId      |-> threads[t].token,
           targetCardId |-> threads[t].entry.round.target_card_id,
           aiCardId     |-> threads[t].entry.round.ai_card_id,
           humanCardId  |-> threads[t].entry.round.human_card_id,
           layout       |-> threads[t].entry.layout])))
    /\ UNCHANGED <<configured, reachable, driver, store, pc, rounds, ret, paths>>

ReaderOps == {"get_round", "validate_answer"}

\* get_round / validate_answer: if round_id not in _rounds: raise 404
ThreadLookup(t, op, round_id) ==
    /\ pc = "serving"
    /\ threads[t].pc = "idle"
    /\ threads' = IF round_id \notin DOMAIN rounds
                  THEN [threads EXCEPT ![t].op = op, ![t].token = round_id,
                                       ![t].pc = "done", ![t].result = Raise("404")]
                  ELSE [threads EXCEPT ![t].op = op, ![t].token = round_id,
                                       ![t].pc = "read"]
    /\ UNCHANGED <<configured, reachable, driver, store, pc, rounds, ret, paths>>

\* r, layout = _rounds[round_id]
ThreadRead(t) ==
    /\ threads[t].pc = "read"
    /\ threads' = IF threads[t].token \notin DOMAIN rounds
                  THEN Done(t, Raise("KeyError"))
                  ELSE [threads EXCEPT ![t].pc = "answer",
                                       ![t].entry = rounds[threads[t].token]]
    /\ UNCHANGED <<configured, reachable, driver, store, pc, rounds, ret, paths>>

\* The rest of the handler, on the entry it has read
ThreadAnswer(t, point_id, name) ==
    /\ threads[t].pc = "answer"
    /\ IF threads[t].op = "get_round"
       THEN \E symbols \in SymbolsForRound(threads[t].entry.round) :
               threads' = Done(t,
                   IF symbols.status # "ok" THEN symbols
                   ELSE Ok(DictV([roundId |-> threads[t].token,
                                  layout  |-> threads[t].entry.layout])))
       ELSE \E out \in JudgeOutcomes(name, point_id, threads[t].entry.round, "human") :
               threads' = Done(t,
                   IF out.status # "ok" THEN out
                   ELSE Ok(DictV([correct  |-> out.value[2].correct,
                                  expected |-> out.value[2].expected,
                                  debug    |-> IF DriverReturned
                                               THEN out.value[2].expected
                                               ELSE Null])))
    /\ driver' = DriverAfter
    /\ UNCHANGED <<configured, reachable, store, pc, rounds, ret, paths>>

\* Request inputs of the worker threads
ThreadTokens == 1 .. NumThreads

ThreadClaims == {<<Null, StrV(" MUSIC NOTES ")>>}

\* The draws of random.sample the worker threads are let to see
ThreadDraws == {ids \in sample(range(57)) : ids[3] = 7}

\* The datastore is empty on a first run and holds the deck on a later one;
\* a process that is not configured for it never touches it
Init ==
    /\ configured \in BOOLEAN
    /\ reachable \in {r \in BOOLEAN : r => configured}
    /\ driver = FALSE
    /\ store \in IF configured THEN {EmptyStore, SeededStore} ELSE {EmptyStore}
    /\ pc = "start"
    /\ rounds = <<>>
    /\ ret = NoCall
    /\ paths = [p \in Paths |-> NotStarted]
    /\ threads = [t \in Threads |-> Idle]

NextDeck ==
    \/ Startup
    \/ Return
    \/ \E c \in CardInputs : GetSymbolsOnCard(c)
    \/ \E a, b \in CardInputs : GetSharedSymbol(a, b)
    \/ \E c \in CardInputs : FallbackSymbolsOnCard(c)
    \/ \E a, b \in CardInputs : FallbackSharedSymbol(a, b)
    \/ \E a, b \in RoundCardInputs, i \in IdInputs, n \in NameInputs :
          JudgeRound(a, b, i, n)

SpecDeck == Init /\ [][NextDeck]_vars

Next ==
    \/ Startup
    \/ Return
    \/ CreateRound
    \/ \E t \in TokenInputs, i \in IdInputs, n \in NameInputs : ValidateAnswer(t, i, n)
    \/ \E t \in TokenInputs, i \in IdInputs, n \in NameInputs : JudgeAi(t, i, n)
    \/ \E t \in TokenInputs : GetRound(t)
    \/ \E t \in TokenInputs, v \in BOOLEAN, g \in GuessInputs : AiPlay(t, v, g)

Spec == Init /\ [][Next]_vars

\* The datastore stops accepting connections while the server is serving;
\* graph._driver keeps the driver it has cached
BackendDown ==
    /\ pc = "serving"
    /\ reachable
    /\ reachable' = FALSE
    /\ UNCHANGED <<configured, driver, store, pc, rounds, ret, paths, threads>>

NextOutage ==
    \/ Next
    \/ BackendDown

SpecOutage == Init /\ [][NextOutage]_vars

\* Requests served side by side by the worker threads
NextThreads ==
    \/ Startup
    \/ Return
    \/ \E t \in Threads, ids \in ThreadDraws : ThreadCreate(t, ids)
    \/ \E t \in Threads : ThreadStore(t)
    \/ \E t \in Threads : ThreadRespond(t)
    \/ \E t \in Threads, op \in ReaderOps, k \in ThreadTokens : ThreadLookup(t, op, k)
    \/ \E t \in Threads : ThreadRead(t)
    \/ \E t \in Threads, c \in ThreadClaims : ThreadAnswer(t, c[1], c[2])

SpecThreads == Init /\ [][NextThreads]_vars

\* Runs of ensure_deck_loaded, side by side and one after another
NextSeed ==
    \/ \E p \in Paths : PathCheck(p)
    \/ \E p \in Paths : PathSeedPoints(p)
    \/ \E p \in Paths : PathSeedCards(p)
    \/ \E p \in Paths, k \in 1..5 : PathSeedIncidence(p, k)
    \/ \E p \in Paths : PathRerun(p)

SpecSeed == Init /\ [][NextSeed]_vars

\* The same, with runs that may be stopped half way
NextCrash ==
    \/ NextSeed
    \/ \E p \in Paths : PathInterrupt(p)

SpecCrash == Init /\ [][NextCrash]_vars

----------------------------------------------------------------------------
(* Properties *)

Cards == 0 .. 56

\* The point ids the fallback puts on each card
FallbackPoints == [c \in Cards |-> PointIdSet(_fallback_symbols_on_card(c))]

AllFallbackPoints == UNION {FallbackPoints[c] : c \in Cards}

IsCall(op) == ret.op = op /\ ret.status = "ok"

\* The point ids of a returned list of symbols, in order
PointIds(list) == [k \in DOMAIN list[2] |-> list[2][k].pointId]

\* C1: for every two distinct card ids in 0..56 the fallback point sets of the
\* two cards have exactly one point id in common, and _fallback_shared_symbol
\* returns that point, never None.
C1_OneSharedPoint ==
    (IsCall("_fallback_shared_symbol")
        /\ ret.args[1] \in Cards /\ ret.args[2] \in Cards /\ ret.args[1] # ret.args[2])
    => LET common == FallbackPoints[ret.args[1]] \cap FallbackPoints[ret.args[2]]
       IN  /\ Cardinality(common) = 1
           /\ ret.value # Null
           /\ common = {ret.value[2].pointId}

C1_Witness ==
    /\ IsCall("_fallback_shared_symbol")
    /\ ret.args = <<0, 1>>
    /\ ret.value # Null
    /\ ret.value[2].pointId = IntV(50)

\* C2: once the store is seeded, the graph-backed get_symbols_on_card returns
\* the same point ids as the fallback for every card id in 0..56, and the
\* graph-backed get_shared_symbol returns the same point id as the fallback
\* for every pair of distinct card ids.
C2_BackendsAgree ==
    (pc = "serving" /\ ret.via = "graph" /\ ret.status = "ok")
    => /\ (ret.op = "get_symbols_on_card" /\ ret.args[1] \in Cards)
              => PointIds(ret.value)
                     = PointIds(ListV(_fallback_symbols_on_card(ret.args[1])))
       /\ (ret.op = "get_shared_symbol" /\ ret.args[1] \in Cards
              /\ ret.args[2] \in Cards /\ ret.args[1] # ret.args[2])
              => /\ ret.value # Null
                 /\ _fallback_shared_symbol(ret.args[1], ret.args[2]) # Null
                 /\ ret.value[2].pointId
                        = _fallback_shared_symbol(ret.args[1], ret.args[2])[2].pointId

\* C3: the fallback puts exactly 8 distinct points on every card id in 0..56
\* and returns the empty list for any other id; the edges of a seeded store
\* put exactly 8 points on every card id in 0..56.
C3_EightPointsPerCard ==
    IsCall("_fallback_symbols_on_card")
    => LET c == ret.args[1]
       IN  /\ IF c \in Cards
              THEN Len(ret.value[2]) = 8 /\ Cardinality(PointIdSet(ret.value[2])) = 8
              ELSE ret.value = ListV(<<>>)
           /\ (configured /\ reachable /\ c \in Cards)
                  => Cardinality({e \in store.on : e.c = c}) = 8

C3_Witness ==
    /\ IsCall("_fallback_symbols_on_card")
    /\ ret.args = <<49>>
    /\ Len(ret.value[2]) = 8
    /\ configured /\ reachable
    /\ Cardinality({e \in store.on : e.c = 49}) = 8

\* C4: every point id of the generated incidence lies on exactly 8 of the
\* cards 0..56, and exactly 57 distinct point ids appear over the 57 cards.
C4_EightCardsPerPoint ==
    (IsCall("_fallback_symbols_on_card") /\ ret.args[1] \in Cards)
    => /\ \A p \in PointIdSet(ret.value[2]) :
              Cardinality({c \in Cards : p \in FallbackPoints[c]}) = 8
       /\ Cardinality(AllFallbackPoints) = 57

C4_Witness ==
    /\ IsCall("_fallback_symbols_on_card")
    /\ ret.args = <<56>>
    /\ IntV(57) \in PointIdSet(ret.value[2])

\* C5: for every two distinct points of the generated incidence exactly one
\* card id in 0..56 has both points.
C5_OneCardPerPointPair ==
    (IsCall("_fallback_symbols_on_card") /\ ret.args[1] \in Cards)
    => \A p \in PointIdSet(ret.value[2]) : \A q \in AllFallbackPoints \ {p} :
           Cardinality({c \in Cards : p \in FallbackPoints[c] /\ q \in FallbackPoints[c]}) = 1

C5_Witness ==
    /\ IsCall("_fallback_symbols_on_card")
    /\ ret.args = <<50>>
    /\ {IntV(8), IntV(14)} \subseteq PointIdSet(ret.value[2])

\* The construction as the specification words it, with point ids 0..56
SpecPoints(c) ==
    IF c < 49
    THEN {x * 7 + (((c \div 7) * x + (c % 7)) % 7) : x \in 0..6} \cup {49 + (c \div 7)}
    ELSE IF c < 56
         THEN {(c - 49) * 7 + y : y \in 0..6} \cup {56}
         ELSE 49 .. 56

SymbolsQuery == {"get_symbols_on_card", "_fallback_symbols_on_card"}

\* C6: for every card id the point ids the store returns are those of the
\* specification's construction with point ids in 0..56.
C6_SpecConstruction ==
    (ret.op \in SymbolsQuery /\ ret.status = "ok" /\ ret.args[1] \in Cards)
    => PointIdSet(ret.value[2]) = {IntV(i) : i \in SpecPoints(ret.args[1])}

\* C7: the points on card 0 are exactly {0, 7, 14, 21, 28, 35, 42, 49}.
C7_CardZero ==
    (ret.op \in SymbolsQuery /\ ret.status = "ok" /\ ret.args = <<0>>)
    => PointIdSet(ret.value[2])
           = {IntV(0), IntV(7), IntV(14), IntV(21), IntV(28), IntV(35), IntV(42), IntV(49)}

\* C8: every round has pairwise distinct target, ai and human card ids, each
\* in 0..56, and the first, second and third drawn ids are the target, ai and
\* human card.
C8_RoundDistinct ==
    /\ \A t \in DOMAIN rounds :
          LET r == rounds[t].round
          IN  /\ {r.target_card_id, r.ai_card_id, r.human_card_id} \subseteq Cards
              /\ Cardinality({r.target_card_id, r.ai_card_id, r.human_card_id}) = 3
    /\ IsCall("create_round")
          => /\ rounds # <<>>
             /\ rounds[Len(rounds)].round.target_card_id = ret.args[1]
             /\ rounds[Len(rounds)].round.ai_card_id = ret.args[2]
             /\ rounds[Len(rounds)].round.human_card_id = ret.args[3]
             /\ ret.value[2].targetCardId = ret.args[1]
             /\ ret.value[2].aiCardId = ret.args[2]
             /\ ret.value[2].humanCardId = ret.args[3]

C8_Witness ==
    /\ IsCall("create_round")
    /\ ret.args = <<7, 0, 1>>
    /\ Len(rounds) = 2
    /\ rounds[2].round.target_card_id = 7

Judged == {"validate_answer", "judge_answer"}

\* The claim a judged call carried: <<point id, name>>
ClaimId == ret.args[2]

ClaimName == ret.args[3]

\* C9: validating a claim returns a verdict, and correct is true if and only
\* if the claim's point id equals the shared point's id or the claim's name
\* equals the shared point's name after trimming and ignoring case, for a
\* claim with only an id, only a name, or both.
C9_VerdictIff ==
    (ret.op \in Judged /\ ret.status # "404" /\ (ClaimId # Null \/ ClaimName # Null))
    => /\ ret.status = "ok"
       /\ ret.value[2].expected # Null
       /\ ret.value[2].correct =
             BoolV( \/ (ClaimId # Null /\ ClaimId = ret.value[2].expected[2].pointId)
                    \/ (ClaimName # Null
                          /\ lower(strip(Chars[ClaimName[2]]))
                               = lower(strip(Chars[ret.value[2].expected[2].name[2]]))) )

C11_MissingToken404 ==
    [][(ret = NoCall /\ ret'.op \in {"get_round", "validate_answer", "ai_play"}
           /\ ret'.args[1] \notin DOMAIN rounds)
         => (ret'.status = "404" /\ rounds' = rounds)]_vars

C11_Witness ==
    /\ ret.op = "ai_play" /\ ret.status = "404"
    /\ Len(rounds) > 0 /\ ret.args[1] \notin DOMAIN rounds

\* C12: ensure_deck_loaded run on a store that holds the seeded deck returns
\* "already_loaded" and changes no node and no edge; a run that returns
\* "just_loaded" leaves 57 points, 57 cards and the deck's edges, and no later
\* step changes them
C12_SeedIdempotent ==
    [][/\ store = SeededStore => store' = store
       /\ \A p \in Paths :
            /\ (store = SeededStore /\ paths[p].pc = "check" /\ paths'[p].pc # "check")
                  => paths'[p].result = StrV("already_loaded")
            /\ paths'[p].result = StrV("just_loaded")
                  => /\ store' = SeededStore
                     /\ Cardinality(store'.points) = 57
                     /\ Cardinality(store'.cards) = 57]_vars

C12_Witness ==
    /\ store = SeededStore
    /\ \E p, q \in Paths : /\ paths[p].result = StrV("just_loaded")
                           /\ paths[q].result = StrV("already_loaded")

\* C17: of the startup paths that run ensure_deck_loaded side by side, at most
\* one executes seeding steps
C17_OneSeeder == Cardinality({p \in Paths : paths[p].seeded}) <= 1

\* Every card of the deck is in the store with its 8 incidence edges
DeckComplete ==
    /\ Cardinality(store.cards) = 57
    /\ \A l \in store.cards :
          Cardinality({e \in store.on : e.c = l.cardId[2]}) = 8

MidRun(p) == paths[p].pc \notin {"check", "done", "interrupted"}

\* C18: a run of ensure_deck_loaded that starts when an earlier run was
\* interrupted (and no run is under way) reports "already_loaded" only on the
\* complete deck
C18_NoPartialAlreadyLoaded ==
    [][\A p \in Paths :
          (/\ paths[p].pc = "check"
           /\ paths'[p].result = StrV("already_loaded")
           /\ \E q \in Paths : paths[q].pc = "interrupted"
           /\ \A q \in Paths : ~MidRun(q))
             => DeckComplete]_vars

\* C13: with the datastore not configured or not reachable, every call of
\* get_symbols_on_card and get_shared_symbol is answered by the computational
\* fallback and returns a result
C13_FallbackWhenUnavailable ==
    (ret.op \in {"get_symbols_on_card", "get_shared_symbol"}
        /\ (~configured \/ ~reachable))
      => (ret.status = "ok" /\ ret.via = "fallback")

\* C14: for a round created while the datastore was connected, the judge gives
\* the same outcome for the same claim just after the datastore is lost as
\* just before
C14_SameVerdictAfterOutage ==
    [][(reachable /\ ~reachable')
         => \A t \in DOMAIN rounds, i \in IdInputs, n \in NameInputs :
               JudgeOutcomes(n, i, rounds[t].round, "human")'
                   = JudgeOutcomes(n, i, rounds[t].round, "human")]_vars

Roles == {"human", "ai"}

\* What get_driver and the two queries read
Backend == <<configured, reachable, driver, store>>

\* Every call that can start has exactly one outcome
OneOutcome ==
    /\ \A t \in DOMAIN rounds, role \in Roles, i \in IdInputs, n \in NameInputs :
          Cardinality(JudgeOutcomes(n, i, rounds[t].round, role)) = 1
    /\ \A a, b \in DrawCandidates : Cardinality(SharedOutcomes(a, b)) = 1
    /\ \A c \in DrawCandidates : Cardinality(SymbolsOutcomes(c)) = 1

\* The step leaves the outcome of every call as it was
SameOutcomes ==
    /\ \A t \in DOMAIN rounds, role \in Roles, i \in IdInputs, n \in NameInputs :
          JudgeOutcomes(n, i, rounds[t].round, role)'
              = JudgeOutcomes(n, i, rounds[t].round, role)
    /\ \A a, b \in DrawCandidates : SharedOutcomes(a, b)' = SharedOutcomes(a, b)
    /\ \A c \in DrawCandidates : SymbolsOutcomes(c)' = SymbolsOutcomes(c)

\* C15: in a serving process judge_answer for a stored round, role and claim,
\* and get_shared_symbol and get_symbols_on_card for given card ids, have one
\* possible outcome each, and no step changes it: a step either leaves all
\* that the queries read untouched or leaves every outcome the same
C15_Deterministic ==
    /\ []((pc = "serving" /\ ret = NoCall) => OneOutcome)
    /\ [][(pc = "serving" /\ pc' = "serving")
            => (Backend' = Backend \/ SameOutcomes)]_vars

C15_Witness ==
    /\ ret.op = "validate_answer" /\ ret.status = "ok" /\ ret.via = "graph"
    /\ Len(rounds) = MaxRounds /\ driver

\* A pair of card ids with no single shared point: equal ids, or an id that
\* is not a card
Degenerate(a, b) == a = b \/ a \notin Cards \/ b \notin Cards

\* A shared-point query on a degenerate pair that the backend has answered
DegenerateQuery ==
    /\ ret.op \in {"get_shared_symbol", "_fallback_shared_symbol", "judge_round"}
    /\ Degenerate(ret.args[1], ret.args[2])
    /\ (ret.via = "fallback" \/ reachable)

\* C16 as claimed: a shared-point query on a pair of card ids with zero or
\* several shared points ends in an error result, not in a default answer
C16_InternalError == DegenerateQuery => ret.status # "ok"

\* C16 as amended: the query of such a pair returns None without an error, and
\* a claim judged on such a pair is incorrect with expected = None
C16_AbsentNotError ==
    DegenerateQuery =>
        /\ ret.status = "ok"
        /\ ret.op # "judge_round" => ret.value = Null
        /\ ret.op = "judge_round" =>
              ret.value = DictV([correct |-> BoolV(FALSE), expected |-> Null])

C16_Witness ==
    /\ ret.op = "judge_round" /\ ret.args[1] = ret.args[2] /\ ret.args[1] \in Cards
    /\ ret.args[3] # Null /\ ret.via = "fallback" /\ ret.status = "ok"

Completed(t, op) ==
    threads[t].pc = "done" /\ threads[t].op = op /\ threads[t].result.status = "ok"

\* C19: the token a completed create_round returned is a key of the round
\* table and maps to the card ids and the layout that call returned; the entry
\* a reader holds is the table's whole entry for its token
C19_NoLostUpdate ==
    /\ \A t \in Threads :
          Completed(t, "create_round") =>
              LET resp == threads[t].result.value[2]
              IN  /\ resp.roundId \in DOMAIN rounds
                  /\ rounds[resp.roundId] =
                        [round  |-> [target_card_id |-> resp.targetCardId,
                                     ai_card_id     |-> resp.aiCardId,
                                     human_card_id  |-> resp.humanCardId],
                         layout |-> resp.layout]
    /\ \A t \in Threads :
          (threads[t].op \in ReaderOps /\ threads[t].pc = "answer") =>
              /\ threads[t].token \in DOMAIN rounds
              /\ threads[t].entry = rounds[threads[t].token]
    /\ \A t \in Threads :
          Completed(t, "get_round") =>
              threads[t].result.value[2].layout = rounds[threads[t].token].layout

C19_Witness ==
    \E t, u \in Threads :
        /\ t # u
        /\ Completed(t, "create_round") /\ Completed(u, "create_round")
        /\ threads[t].token = 2 /\ threads[u].token = 1
        /\ Cardinality(DOMAIN rounds) = 2

\* C20: get_round, validate_answer and judge_answer leave the round table and
\* the incidence data as they were, and no step changes or removes the entry of
\* a round that is in the table
C20_ReadOnly ==
    [][/\ (ret = NoCall /\ ret'.op \in {"get_round", "validate_answer", "judge_answer"})
            => (rounds' = rounds /\ store' = store)
       /\ \A t \in DOMAIN rounds :
            t \in DOMAIN rounds' /\ rounds'[t] = rounds[t]]_vars

C20_Witness ==
    /\ ret.op = "get_round" /\ ret.status = "ok"
    /\ Len(rounds) = MaxRounds /\ store = SeededStore

\* C21: create_round puts the layout it returns into the table under a token
\* that was not a key before and leaves every other entry alone; get_round with
\* a token of the table succeeds and returns that token and the entry's layout;
\* no step changes or removes an entry
C21_RoundPersists ==
    [][/\ (ret = NoCall /\ ret'.op = "create_round" /\ ret'.status = "ok")
            => LET t == ret'.value[2].roundId
               IN  /\ t \notin DOMAIN rounds
                   /\ t \in DOMAIN rounds'
                   /\ rounds'[t].layout = ret'.value[2].layout
       /\ (ret = NoCall /\ ret'.op = "get_round" /\ ret'.args[1] \in DOMAIN rounds)
            => /\ ret'.status = "ok"
               /\ ret'.value[2].roundId = ret'.args[1]
               /\ ret'.value[2].layout = rounds[ret'.args[1]].layout
       /\ \A t \in DOMAIN rounds :
            t \in DOMAIN rounds' /\ rounds'[t] = rounds[t]]_vars

\* C22: for card ids a, b in 0..56, _fallback_shared_symbol(a, b) returns what
\* _fallback_shared_symbol(b, a) returns; a returned point is on both cards'
\* lists of _fallback_symbols_on_card; for a = b the result is None
C22_SymmetricSound ==
    (IsCall("_fallback_shared_symbol")
        /\ ret.args[1] \in Cards /\ ret.args[2] \in Cards)
    => /\ ret.value = _fallback_shared_symbol(ret.args[2], ret.args[1])
       /\ ret.value # Null =>
            /\ ret.value[2].pointId \in FallbackPoints[ret.args[1]]
            /\ ret.value[2].pointId \in FallbackPoints[ret.args[2]]
       /\ ret.args[1] = ret.args[2] => ret.value = Null

C22_Witness ==
    /\ IsCall("_fallback_shared_symbol")
    /\ ret.args = <<1, 0>>
    /\ ret.value = _fallback_shared_symbol(0, 1)
    /\ ret.value # Null

====
